---------------------------- MODULE Spec2Model ----------------------------
(***************************************************************************)
(* HMS component status tracker (status-tracker.py) and its A2A API shell  *)
(* (a2a-integration.py): the per-component status records, the issue log,  *)
(* the work tickets and the operations that change them; and the agent     *)
(* verification records (agent-verification.py) with the gate of the MCP   *)
(* adapter (mcp-verification-adapter.py).                                  *)
(*                                                                         *)
(* Files on disk are modelled as functions: statusFiles maps a component   *)
(* to the JSON object of its <component>_status.json, tickets maps a       *)
(* ticket id to the JSON object of its <ticket_id>.json.  A Python dict    *)
(* is a TLA+ function/record, a list is a sequence, an optional argument   *)
(* is a set with at most one element (None == {}).                         *)
(***************************************************************************)
EXTENDS Integers, Sequences, FiniteSets, TLC

VARIABLES
    statusFiles,    \* STATUS_DIR: component -> persisted status object
    tickets,        \* WORK_TICKETS_DIR: ticket id -> persisted ticket object
    notifications,  \* LOGS_DIR/notifications.log, one entry per line
    apiLog,         \* LOGS_DIR/a2a_api.log, one entry per line
    nextUuid,       \* number of uuid.uuid4() values drawn so far
    now,            \* datetime.datetime.now(), one tick per operation
    hist,           \* history: per component, the record calls made on it
    last,           \* history: the last call, its arguments and its result
    procs,          \* per process: the record call it is in, the status it loaded
    probe,          \* a pure function's input and, once applied, its output
    verifications,  \* ~/.hms_verification_<agent_id>: agent id -> persisted object
    clock           \* int(time.time()), in seconds

vars == <<statusFiles, tickets, notifications, apiLog, nextUuid, now, hist, last,
          procs, probe, verifications, clock>>

(***************************************************************************)
(* Bounds of the model.                                                    *)
(***************************************************************************)
MaxCalls == 4       \* direct record calls in one behaviour
MaxTests == 2       \* of which record_test_run calls
MaxRequests == 3    \* API requests in one behaviour
MaxCount == 8       \* test counts of a results payload given to a pure function
MaxStoreCalls == 3  \* direct calls on the status store in one behaviour
MaxFaultCalls == 3  \* direct record calls in one behaviour with failing files
MaxConcCalls == 3   \* record calls begun by the processes in one behaviour
MaxShellCalls == 3  \* API requests in one behaviour of the shell
MaxFaultRequests == 2   \* API requests in one behaviour with failing files

(***************************************************************************)
(* Values.                                                                 *)
(***************************************************************************)
\* A component identifier, as the sequence of its pieces: "HMS-API" is
\* <<"HMS-", "API">>.
Components == {<<"HMS-", "API">>, <<"HMS-", "DEV">>}

STATUS_VERSION == "1.0"

\* Python's None where a timestamp is expected; the clock starts after it.
NoneTime == 0

None == {}
Some(v) == {v}
IsNone(opt) == opt = {}
TheValue(opt) == CHOOSE v \in opt : TRUE

EmptyDict == [k \in {} |-> 0]

\* a day, in the seconds of time.time()
DAY == 24 * 60 * 60

\* dict.get(key, default)
Get(d, key, default) == IF key \in DOMAIN d THEN d[key] ELSE default

\* d[key] = value
SetKey(d, key, value) ==
    [k \in DOMAIN d \cup {key} |-> IF k = key THEN value ELSE d[k]]

StartStatuses == {"unknown", "running", "failed"}
TestStatuses == {"unknown", "passing", "failing"}


(***************************************************************************)
(* StatusStore: get_component_status / update_component_status.            *)
(***************************************************************************)
\* The status object created when no status file exists.
DefaultStatus(component, t) ==
    [ component |-> component,
      version |-> STATUS_VERSION,
      created_at |-> t,
      last_updated |-> t,
      start |-> [ last_attempt |-> NoneTime,
                  last_success |-> NoneTime,
                  attempts |-> 0,
                  successes |-> 0,
                  failures |-> 0,
                  status |-> "unknown" ],
      tests |-> [ last_run |-> NoneTime,
                  last_success |-> NoneTime,
                  total_runs |-> 0,
                  total_passed |-> 0,
                  total_failed |-> 0,
                  status |-> "unknown",
                  last_results |-> EmptyDict ],
      issues |-> <<>>,
      operational_status |-> "unknown" ]

\* The content of a file that json.load rejects (json.JSONDecodeError).
Malformed == [ malformed |-> TRUE ]

\* get_component_status over a given content of STATUS_DIR: the parsed
\* file if it exists and parses, a new status object otherwise.
LoadStatus(files, component, t) ==
    IF component \in DOMAIN files /\ files[component] # Malformed
    THEN files[component]
    ELSE DefaultStatus(component, t)

get_component_status(component) == LoadStatus(statusFiles, component, now)

\* Faulty variant: a load that finds no record writes the default one.
get_component_status_creating(world, component, t) ==
    [ world |-> IF component \in DOMAIN world.statusFiles THEN world
                ELSE [world EXCEPT !.statusFiles =
                        [c \in DOMAIN @ \cup {component} |->
                            IF c = component THEN DefaultStatus(component, t) ELSE @[c]]],
      status |-> LoadStatus(world.statusFiles, component, t) ]

\* A call of get_component_status: [world |-> the world after it,
\* status |-> the object it returns].  It writes nothing.
get_component_status_call(world, component, t) ==
    [ world |-> world,
      status |-> LoadStatus(world.statusFiles, component, t) ]

\* update_component_status, first half: status["last_updated"] = now, on
\* the caller's object.
Stamp(status, t) == SetKey(status, "last_updated", t)

\* Faulty variant: the keys of the old record that the new status does not
\* hold are kept.
update_component_status_merging(files, component, status, t) ==
    LET old == IF component \in DOMAIN files /\ files[component] # Malformed
               THEN files[component] ELSE EmptyDict
        merged == [k \in DOMAIN old \cup DOMAIN status |->
                     IF k \in DOMAIN status THEN status[k] ELSE old[k]]
    IN  [c \in DOMAIN files \cup {component} |->
            IF c = component THEN Stamp(merged, t) ELSE files[c]]

\* Faulty variant: of the start and the tests sub-record the save keeps
\* the one of the file, if that has counted more calls.
update_component_status_newest_parts(files, component, status, t) ==
    LET fresh == Stamp(status, t)
        old == IF component \in DOMAIN files /\ files[component] # Malformed
               THEN files[component] ELSE fresh
        merged == [fresh EXCEPT
                     !.start = IF old.start.attempts > @.attempts THEN old.start ELSE @,
                     !.tests = IF old.tests.total_runs > @.total_runs THEN old.tests ELSE @]
    IN  [c \in DOMAIN files \cup {component} |->
            IF c = component THEN merged ELSE files[c]]

\* Faulty variant: the status file is never written.
update_component_status_no_write(files, component, status, t) == files

\* Faulty variant: a status file that does not parse is left as it is.
update_component_status_keeping_unreadable(files, component, status, t) ==
    IF component \in DOMAIN files /\ files[component] = Malformed THEN files
    ELSE [c \in DOMAIN files \cup {component} |->
            IF c = component THEN Stamp(status, t) ELSE files[c]]

\* update_component_status, second half: the content of STATUS_DIR after
\* json.dump of the stamped object.
update_component_status(files, component, status, t) ==
    [c \in DOMAIN files \cup {component} |->
        IF c = component THEN Stamp(status, t) ELSE files[c]]

(***************************************************************************)
(* OperationalStatusRule: update_operational_status.                       *)
(***************************************************************************)
\* Faulty variant: the failed check placed before the unknown check.
OperationalStatusRuleFailedFirst(start_status, test_status) ==
    IF start_status = "failed" THEN "offline"
    ELSE IF start_status = "unknown" \/ test_status = "unknown" THEN "unknown"
    ELSE IF test_status = "failing" THEN "degraded"
    ELSE IF start_status = "running" /\ test_status = "passing" THEN "operational"
    ELSE "degraded"

\* Faulty variant: no unknown check, so running with unknown tests falls
\* through to the final else.
OperationalStatusRuleNoUnknownCheck(start_status, test_status) ==
    IF start_status = "failed" THEN "offline"
    ELSE IF test_status = "failing" THEN "degraded"
    ELSE IF start_status = "running" /\ test_status = "passing" THEN "operational"
    ELSE "degraded"

OperationalStatusRule(start_status, test_status) ==
    IF start_status = "unknown" \/ test_status = "unknown" THEN "unknown"
    ELSE IF start_status = "failed" THEN "offline"
    ELSE IF test_status = "failing" THEN "degraded"
    ELSE IF start_status = "running" /\ test_status = "passing" THEN "operational"
    ELSE "degraded"

\* Faulty variant: the aggregate is not recomputed before the save.
update_operational_status_skipped(status) == status

\* Faulty variant: a failed start is offline whatever the tests say.
update_operational_status_failure_first(status) ==
    SetKey(status, "operational_status",
           OperationalStatusRuleFailedFirst(status.start.status, status.tests.status))

update_operational_status(status) ==
    SetKey(status, "operational_status",
           OperationalStatusRule(status.start.status, status.tests.status))

(***************************************************************************)
(* TicketGenerator.                                                        *)
(***************************************************************************)
\* Faulty variant: only a leading "HMS-" is replaced.
ReplaceLeadingOnly(component) ==
    [i \in DOMAIN component |->
        IF i = 1 /\ component[i] = "HMS-" THEN "HMS-AGT-" ELSE component[i]]

\* str.replace("HMS-", "HMS-AGT-") on a component identifier: every
\* occurrence of the substring is replaced.
ReplacePrefix(component) ==
    [i \in DOMAIN component |->
        IF component[i] = "HMS-" THEN "HMS-AGT-" ELSE component[i]]

determine_responsible_agent(component, issue_type) ==
    IF issue_type = "start_failure" THEN <<"HMS-", "DEV">>
    ELSE IF issue_type = "test_failure" THEN ReplacePrefix(component)
    ELSE <<"HMS-", "DEV">>

\* issue.get("details", {}).get("results", {})
IssueResults(issue) == Get(Get(issue, "details", EmptyDict), "results", EmptyDict)

TotalTests(results) ==
    Get(results, "failed", 0) + Get(results, "passed", 0) + Get(results, "skipped", 0)

\* Faulty variant: >= 0.5 for > 0.5.
AtLeastHalf(failed, total) == 2 * failed >= total

\* failed / total > 0.5 on non-negative integers, total > 0
MoreThanHalf(failed, total) == 2 * failed > total

determine_priority(component, issue_type, issue) ==
    IF issue_type = "start_failure" THEN "high"
    ELSE IF issue_type = "test_failure" THEN
        LET results == IssueResults(issue)
            failed == Get(results, "failed", 0)
            total == TotalTests(results)
        IN  IF total > 0 /\ MoreThanHalf(failed, total) THEN "high" ELSE "medium"
    ELSE "medium"

\* The f-string of the description, as the tuple of its varying parts.
generate_ticket_description(component, issue_type, issue) ==
    IF issue_type = "start_failure" THEN <<"failed to start", component>>
    ELSE IF issue_type = "test_failure" THEN
        LET results == IssueResults(issue)
            failed == Get(results, "failed", 0)
            total == TotalTests(results)
        IN  IF total > 0 THEN <<"tests are failing", component, failed, total>>
            ELSE <<"tests failed to run properly", component>>
    ELSE <<"issue detected", component, issue_type>>

generate_suggested_actions(component, issue_type, issue) ==
    IF issue_type = "start_failure" THEN
        << <<"check logs", component>>, <<"verify dependencies", component>>,
           <<"check recent changes">>, <<"verify environment">> >>
    ELSE IF issue_type = "test_failure" THEN
        << <<"review failing tests", component>>, <<"check recent code changes">>,
           <<"verify test environment">>, <<"check integration issues">>,
           <<"run tests verbosely">> >>
    ELSE << <<"investigate">>, <<"check component logs">>, <<"review recent changes">> >>

\* f"WRK-{uuid.uuid4().hex[:8]}": uuid values are taken to be fresh.
TicketId(uuid) == <<"WRK-", uuid>>

\* The ticket object generate_work_ticket builds.
NewTicket(component, issue_type, issue, uuid, t) ==
    [ id |-> TicketId(uuid),
      component |-> component,
      issue_id |-> issue.id,
      issue_type |-> issue_type,
      created_at |-> t,
      updated_at |-> t,
      assigned_to |-> determine_responsible_agent(component, issue_type),
      status |-> "open",
      priority |-> determine_priority(component, issue_type, issue),
      details |-> [ component |-> component,
                    issue |-> issue,
                    description |-> generate_ticket_description(component, issue_type, issue),
                    suggested_actions |-> generate_suggested_actions(component, issue_type, issue) ] ]

\* The line notify_agent_about_ticket appends to notifications.log.
NotificationLine(agent, ticket_id, ticket, t) ==
    [ time |-> t, agent |-> agent, ticket_id |-> ticket_id,
      component |-> ticket.component, issue_type |-> ticket.issue_type ]

\* The files a call appends to; world.failing holds those whose open()
\* fails during the call.
NOTIFICATIONS_LOG == "notifications.log"
A2A_API_LOG == "a2a_api.log"

\* The exception open() raises on a file that cannot be opened.
IOError(file) == <<"IOError", file>>

\* a call that raised does nothing more: world.raised holds the exception
Raise(world, exception) == [world EXCEPT !.raised = Some(exception)]
Raised(world) == world.raised # None

\* Best-effort variant: a failing append is caught and ignored.
notify_agent_about_ticket_best_effort(world, agent, ticket_id, ticket, t) ==
    IF NOTIFICATIONS_LOG \in world.failing
    THEN world
    ELSE [world EXCEPT
            !.notifications = Append(@, NotificationLine(agent, ticket_id, ticket, t))]

\* notify_agent_about_ticket: one line appended to notifications.log; an
\* open() that fails raises to the caller.
notify_agent_about_ticket(world, agent, ticket_id, ticket, t) ==
    IF NOTIFICATIONS_LOG \in world.failing
    THEN Raise(world, IOError(NOTIFICATIONS_LOG))
    ELSE [world EXCEPT
            !.notifications = Append(@, NotificationLine(agent, ticket_id, ticket, t))]

\* "with open(ticket_file, 'w') as f: json.dump(ticket, f, indent=2)"
WriteTicket(world, ticket) ==
    [ world EXCEPT
        !.tickets = [id \in DOMAIN world.tickets \cup {ticket.id} |->
                        IF id = ticket.id THEN ticket ELSE world.tickets[id]],
        !.generated = @ \cup {ticket.id} ]

\* Faulty variant: no new ticket while a ticket of the same component and
\* issue type is open.
generate_work_ticket_deduplicated(world, component, issue_type, issue, t) ==
    IF \E id \in DOMAIN world.tickets :
          /\ world.tickets[id].component = component
          /\ world.tickets[id].issue_type = issue_type
          /\ world.tickets[id].status = "open"
    THEN world
    ELSE LET ticket == NewTicket(component, issue_type, issue, world.nextUuid, t)
             written == WriteTicket([world EXCEPT !.nextUuid = @ + 1], ticket)
         IN  notify_agent_about_ticket(written, ticket.assigned_to, ticket.id, ticket, t)

\* Faulty variant: a new ticket marks the open tickets of the same
\* component and issue type as superseded.
generate_work_ticket_superseding(world, component, issue_type, issue, t) ==
    LET ticket == NewTicket(component, issue_type, issue, world.nextUuid, t)
        superseded ==
            [id \in DOMAIN world.tickets |->
                IF /\ world.tickets[id].component = component
                   /\ world.tickets[id].issue_type = issue_type
                   /\ world.tickets[id].status = "open"
                THEN [world.tickets[id] EXCEPT !.status = "superseded"]
                ELSE world.tickets[id]]
        written == WriteTicket([world EXCEPT !.nextUuid = @ + 1,
                                             !.tickets = superseded], ticket)
    IN  notify_agent_about_ticket(written, ticket.assigned_to, ticket.id, ticket, t)

\* generate_work_ticket: the ticket file is written, then the assigned
\* agent is notified; the ticket id is returned if nothing raised.
generate_work_ticket(world, component, issue_type, issue, t) ==
    LET ticket == NewTicket(component, issue_type, issue, world.nextUuid, t)
        written == WriteTicket([world EXCEPT !.nextUuid = @ + 1], ticket)
    IN  notify_agent_about_ticket(written, ticket.assigned_to, ticket.id, ticket, t)

(***************************************************************************)
(* IssueLog: record_component_start / record_test_run.                     *)
(*                                                                         *)
(* A "world" is the content of the directories a call reads and writes:    *)
(* [statusFiles, tickets, notifications, apiLog, nextUuid], with the ids   *)
(* of the ticket files the call wrote in .generated, the files that fail   *)
(* to open during the call in .failing and the exception the call raised,  *)
(* if any, in .raised.  A record call maps a world to [world |-> the world *)
(* after it, status |-> the object it returns unless it raised].           *)
(***************************************************************************)
World == [ statusFiles |-> statusFiles, tickets |-> tickets,
           notifications |-> notifications, apiLog |-> apiLog,
           nextUuid |-> nextUuid,
           generated |-> {}, failing |-> {}, raised |-> None ]

\* the world of a call during which the given files fail to open
WorldFailing(failing) == [World EXCEPT !.failing = failing]

StartIssue(component, uuid, output, t) ==
    [ id |-> uuid,
      type |-> "start_failure",
      component |-> component,
      timestamp |-> t,
      details |-> [ output |-> output ],
      status |-> "open" ]

TestIssue(component, uuid, results, t) ==
    [ id |-> uuid,
      type |-> "test_failure",
      component |-> component,
      timestamp |-> t,
      details |-> [ results |-> results ],
      status |-> "open" ]

\* Faulty variants of the start trigger: >= for >, and the comparison reversed.
StartTicketDueAtLeast(status) == status.start.failures >= status.start.successes
StartTicketDueReversed(status) == status.start.failures < status.start.successes

\* "if status['start']['failures'] > status['start']['successes']"
StartTicketDue(status) == status.start.failures > status.start.successes

\* Faulty variant of the test trigger: >= for >.
TestTicketDueAtLeast(status) == status.tests.total_failed >= status.tests.total_passed

\* "if status['tests']['total_failed'] > status['tests']['total_passed']"
TestTicketDue(status) == status.tests.total_failed > status.tests.total_passed

\* Faulty variant: a successful start resets the tests status to unknown.
record_component_start_from_tests_reset(world, status0, component, success, output, t) ==
    LET status1 == [status0 EXCEPT !.start.last_attempt = t,
                                   !.start.attempts = @ + 1]
        issue == StartIssue(component, world.nextUuid, output, t)
        status2 ==
            IF success
            THEN [status1 EXCEPT !.start.last_success = t,
                                 !.start.successes = @ + 1,
                                 !.start.status = "running",
                                 !.tests.status = "unknown"]
            ELSE [status1 EXCEPT !.start.failures = @ + 1,
                                 !.start.status = "failed",
                                 !.issues = Append(@, issue)]
        world1 == IF success THEN world ELSE [world EXCEPT !.nextUuid = @ + 1]
        world2 ==
            IF ~success /\ StartTicketDue(status2)
            THEN generate_work_ticket(world1, component, "start_failure", issue, t)
            ELSE world1
        status3 == update_operational_status(status2)
        files == update_component_status(world2.statusFiles, component, status3, t)
    IN  [ world |-> [world2 EXCEPT !.statusFiles = files],
          status |-> Stamp(status3, t) ]

\* Faulty variant: a failed start is not counted in start.failures.
record_component_start_from_failure_uncounted(world, status0, component, success, output, t) ==
    LET status1 == [status0 EXCEPT !.start.last_attempt = t,
                                   !.start.attempts = @ + 1]
        issue == StartIssue(component, world.nextUuid, output, t)
        status2 ==
            IF success
            THEN [status1 EXCEPT !.start.last_success = t,
                                 !.start.successes = @ + 1,
                                 !.start.status = "running"]
            ELSE [status1 EXCEPT !.start.status = "failed",
                                 !.issues = Append(@, issue)]
        world1 == IF success THEN world ELSE [world EXCEPT !.nextUuid = @ + 1]
        status3 == update_operational_status(status2)
        files == update_component_status(world1.statusFiles, component, status3, t)
    IN  [ world |-> [world1 EXCEPT !.statusFiles = files],
          status |-> Stamp(status3, t) ]

\* record_component_start after its first statement: status0 is the
\* object get_component_status returned.
record_component_start_from(world, status0, component, success, output, t) ==
    LET status1 == [status0 EXCEPT !.start.last_attempt = t,
                                   !.start.attempts = @ + 1]
        issue == StartIssue(component, world.nextUuid, output, t)
        status2 ==
            IF success
            THEN [status1 EXCEPT !.start.last_success = t,
                                 !.start.successes = @ + 1,
                                 !.start.status = "running"]
            ELSE [status1 EXCEPT !.start.failures = @ + 1,
                                 !.start.status = "failed",
                                 !.issues = Append(@, issue)]
        world1 == IF success THEN world ELSE [world EXCEPT !.nextUuid = @ + 1]
        world2 ==
            IF ~success /\ StartTicketDue(status2)
            THEN generate_work_ticket(world1, component, "start_failure", issue, t)
            ELSE world1
        status3 == update_operational_status(status2)
        files == update_component_status(world2.statusFiles, component, status3, t)
    IN  IF Raised(world2)
        THEN [ world |-> world2, status |-> status2 ]
        ELSE [ world |-> [world2 EXCEPT !.statusFiles = files],
               status |-> Stamp(status3, t) ]

record_component_start(world, component, success, output, t) ==
    record_component_start_from(world, LoadStatus(world.statusFiles, component, t),
                                component, success, output, t)

\* "if results is None: results = {...}"
DefaultResults == [ passed |-> 0, failed |-> 0, skipped |-> 0 ]

ResultsOrDefault(results) ==
    IF IsNone(results) THEN DefaultResults ELSE TheValue(results)

\* Faulty variant: a failed test run is counted but logs no issue.
record_test_run_from_issue_dropped(world, status0, component, success, results, t) ==
    LET status1 == [status0 EXCEPT !.tests.last_run = t,
                                   !.tests.total_runs = @ + 1]
        res == ResultsOrDefault(results)
        status2 ==
            IF success
            THEN [status1 EXCEPT !.tests.last_success = t,
                                 !.tests.total_passed = @ + 1,
                                 !.tests.status = "passing"]
            ELSE [status1 EXCEPT !.tests.total_failed = @ + 1,
                                 !.tests.status = "failing"]
        status4 == update_operational_status([status2 EXCEPT !.tests.last_results = res])
        files == update_component_status(world.statusFiles, component, status4, t)
    IN  [ world |-> [world EXCEPT !.statusFiles = files],
          status |-> Stamp(status4, t) ]

\* record_test_run after its first statement: status0 is the object
\* get_component_status returned.
record_test_run_from(world, status0, component, success, results, t) ==
    LET status1 == [status0 EXCEPT !.tests.last_run = t,
                                   !.tests.total_runs = @ + 1]
        res == ResultsOrDefault(results)
        issue == TestIssue(component, world.nextUuid, res, t)
        status2 ==
            IF success
            THEN [status1 EXCEPT !.tests.last_success = t,
                                 !.tests.total_passed = @ + 1,
                                 !.tests.status = "passing"]
            ELSE [status1 EXCEPT !.tests.total_failed = @ + 1,
                                 !.tests.status = "failing",
                                 !.issues = Append(@, issue)]
        world1 == IF success THEN world ELSE [world EXCEPT !.nextUuid = @ + 1]
        world2 ==
            IF ~success /\ TestTicketDue(status2)
            THEN generate_work_ticket(world1, component, "test_failure", issue, t)
            ELSE world1
        status3 == [status2 EXCEPT !.tests.last_results = res]
        status4 == update_operational_status(status3)
        files == update_component_status(world2.statusFiles, component, status4, t)
    IN  IF Raised(world2)
        THEN [ world |-> world2, status |-> status2 ]
        ELSE [ world |-> [world2 EXCEPT !.statusFiles = files],
               status |-> Stamp(status4, t) ]

record_test_run(world, component, success, results, t) ==
    record_test_run_from(world, LoadStatus(world.statusFiles, component, t),
                         component, success, results, t)

(***************************************************************************)
(* The A2A API shell (a2a-integration.py).  A request is                   *)
(* [action |-> ..., params |-> dict]; a missing parameter is a key that    *)
(* is not in the domain of params.                                         *)
(***************************************************************************)
API_VERSION == "1.0"

\* log_api_request: the line appended to a2a_api.log.
ApiLogLine(action, params, t) ==
    [ timestamp |-> t,
      action |-> action,
      params |-> [k \in DOMAIN params |->
                    IF k = "auth_token" THEN "***" ELSE params[k]] ]

MissingParameter(name) ==
    [ success |-> FALSE, error |-> <<"Missing required parameter", name>> ]

\* "except Exception as e: return {success: False, error: f'{what}: {str(e)}'}":
\* the exception is consumed, the world stays as the call left it.
Caught(world, what) ==
    [ world |-> [world EXCEPT !.raised = None],
      response |-> [ success |-> FALSE, error |-> <<what, TheValue(world.raised)>> ] ]

\* "try: x = call(...); return {success: True, data: {key: x}}
\*  except Exception as e: return {success: False, error: ...}"
\* for a call that left the world r.world and returned value.
Answer(world, key, value, what) ==
    IF Raised(world)
    THEN Caught(world, what)
    ELSE [ world |-> world,
           response |-> [ success |-> TRUE, data |-> [k \in {key} |-> value] ] ]

StatusAnswer(r, what) == Answer(r.world, "status", r.status, what)
TicketAnswer(r, what) == Answer(r.world, "ticket", r.ticket, what)

\* log_api_request: one line appended to a2a_api.log; an open() that fails
\* raises to the caller.
log_api_request(world, action, params, t) ==
    IF A2A_API_LOG \in world.failing
    THEN Raise(world, IOError(A2A_API_LOG))
    ELSE [world EXCEPT !.apiLog = Append(@, ApiLogLine(action, params, t))]

\* A value of updates["details"] that is not a dict is written Scalar(v).
Scalar(v) == [ scalar |-> v ]
IsDict(value) == "scalar" \notin DOMAIN value

\* Faulty variant: a dict-valued details update replaces the details.
MergeDetailsReplacing(ticket, value) == SetKey(ticket, "details", value)

\* "ticket['details'][detail_key] = detail_value" on details that an earlier
\* update replaced by a value that is not a dict (a string, a number, a
\* list, null) raises TypeError; with nothing to assign nothing is raised.
MergeFails(ticket, updates) ==
    /\ "details" \in DOMAIN updates
    /\ IsDict(updates["details"])
    /\ updates["details"] # EmptyDict
    /\ "details" \in DOMAIN ticket
    /\ ~IsDict(ticket["details"])

TypeError == <<"TypeError", "object does not support item assignment">>

\* "for detail_key, detail_value in value.items(): ticket['details'][...] = ..."
MergeDetails(ticket, value) ==
    LET details == Get(ticket, "details", EmptyDict)
    IN  SetKey(ticket, "details",
               [k \in DOMAIN details \cup DOMAIN value |->
                   IF k \in DOMAIN value THEN value[k] ELSE details[k]])

\* The "for key, value in updates.items()" loop: keys are distinct, so the
\* order of the assignments does not matter.
ApplyUpdates(ticket, updates) ==
    LET plain == DOMAIN updates \ {"details"}
        set == [k \in DOMAIN ticket \cup plain |->
                  IF k \in plain THEN updates[k] ELSE ticket[k]]
    IN  IF "details" \notin DOMAIN updates THEN set
        ELSE IF IsDict(updates["details"]) THEN MergeDetails(set, updates["details"])
        ELSE SetKey(set, "details", updates["details"])

\* Faulty variant: a ticket that does not exist is created from the updates.
update_work_ticket_upsert(world, ticket_id, updates, t) ==
    LET ticket0 == IF ticket_id \in DOMAIN world.tickets
                   THEN world.tickets[ticket_id] ELSE EmptyDict
        ticket == SetKey(ApplyUpdates(ticket0, updates), "updated_at", t)
    IN  [ world |-> [world EXCEPT !.tickets = SetKey(@, ticket_id, ticket)],
          ticket |-> ticket ]

\* Faulty variant: an update of a ticket also sets the status of the issue
\* it was generated for, in the status record of the component.
update_work_ticket_closing_issue(world, ticket_id, updates, t) ==
    IF ticket_id \notin DOMAIN world.tickets
    THEN [ world |-> Raise(world, <<"Work ticket not found", ticket_id>>),
           ticket |-> EmptyDict ]
    ELSE LET old == world.tickets[ticket_id]
             ticket == SetKey(ApplyUpdates(old, updates), "updated_at", t)
             c == old.component
             closed(status) ==
                 [status EXCEPT !.issues =
                     [i \in DOMAIN @ |->
                         IF @[i].id = old.issue_id /\ "status" \in DOMAIN updates
                         THEN [@[i] EXCEPT !.status = updates["status"]] ELSE @[i]]]
         IN  [ world |-> [world EXCEPT
                            !.tickets = SetKey(@, ticket_id, ticket),
                            !.statusFiles =
                                [k \in DOMAIN @ |->
                                    IF k = c /\ @[k] # Malformed THEN closed(@[k]) ELSE @[k]]],
               ticket |-> ticket ]

\* update_work_ticket: [world, ticket]; FileNotFoundError if there is no
\* ticket file, TypeError if the loop over the updates raises, else the
\* updates applied, updated_at set, the file written.
update_work_ticket(world, ticket_id, updates, t) ==
    IF ticket_id \notin DOMAIN world.tickets
    THEN [ world |-> Raise(world, <<"Work ticket not found", ticket_id>>),
           ticket |-> EmptyDict ]
    ELSE IF MergeFails(world.tickets[ticket_id], updates)
    THEN [ world |-> Raise(world, TypeError), ticket |-> EmptyDict ]
    ELSE LET ticket == SetKey(ApplyUpdates(world.tickets[ticket_id], updates),
                              "updated_at", t)
         IN  [ world |-> [world EXCEPT !.tickets = SetKey(@, ticket_id, ticket)],
               ticket |-> ticket ]

\* handle_record_start: [world, response]
handle_record_start(world, params, t) ==
    LET component == Get(params, "component", <<>>)
        success == Get(params, "success", FALSE)
        output == Get(params, "output", "")
    IN  IF component = <<>>
        THEN [ world |-> world, response |-> MissingParameter("component") ]
        ELSE StatusAnswer(record_component_start(world, component, success, Some(output), t),
                          "Error recording component start")

\* handle_record_test: [world, response]
handle_record_test(world, params, t) ==
    LET component == Get(params, "component", <<>>)
        success == Get(params, "success", FALSE)
        results == Get(params, "results", EmptyDict)
    IN  IF component = <<>>
        THEN [ world |-> world, response |-> MissingParameter("component") ]
        ELSE StatusAnswer(record_test_run(world, component, success, Some(results), t),
                          "Error recording test run")

\* handle_get_status: [world, response]
handle_get_status(world, params, t) ==
    LET component == Get(params, "component", <<>>)
    IN  IF component = <<>>
        THEN [ world |-> world, response |-> MissingParameter("component") ]
        ELSE StatusAnswer(get_component_status_call(world, component, t),
                          "Error getting component status")

\* Faulty variant: empty updates are not rejected.
handle_update_work_ticket_any_updates(world, params, t) ==
    LET ticket_id == Get(params, "ticket_id", <<>>)
        updates == Get(params, "updates", EmptyDict)
    IN  IF ticket_id = <<>>
        THEN [ world |-> world, response |-> MissingParameter("ticket_id") ]
        ELSE TicketAnswer(update_work_ticket(world, ticket_id, updates, t),
                          "Error updating work ticket")

\* handle_update_work_ticket: [world, response]
handle_update_work_ticket(world, params, t) ==
    LET ticket_id == Get(params, "ticket_id", <<>>)
        updates == Get(params, "updates", EmptyDict)
    IN  IF ticket_id = <<>>
        THEN [ world |-> world, response |-> MissingParameter("ticket_id") ]
        ELSE IF updates = EmptyDict
        THEN [ world |-> world, response |-> MissingParameter("updates") ]
        ELSE TicketAnswer(update_work_ticket(world, ticket_id, updates, t),
                          "Error updating work ticket")

\* The dispatch of handle_api_request.
Dispatch(world, action, params, t) ==
    IF action = "record_component_start" THEN handle_record_start(world, params, t)
    ELSE IF action = "record_test_run" THEN handle_record_test(world, params, t)
    ELSE IF action = "get_component_status" THEN handle_get_status(world, params, t)
    ELSE IF action = "update_work_ticket" THEN handle_update_work_ticket(world, params, t)
    ELSE [ world |-> world,
           response |-> [ success |-> FALSE, error |-> <<"Unknown action", action>> ] ]

\* What the caller holds when handle_api_request raised: no response.
NoResponse == EmptyDict

\* "response['api_version'] = ...; response['timestamp'] = ...;
\*  response['request_action'] = action" on what a handler returned.
WithStandardFields(r, action, t) ==
    [ world |-> r.world,
      response |-> SetKey(SetKey(SetKey(r.response, "api_version", API_VERSION),
                                 "timestamp", t),
                          "request_action", action) ]

\* handle_api_request after log_api_request, in the world it left.
Process(logged, action, params, t) ==
    IF Raised(logged)
    THEN [ world |-> logged, response |-> NoResponse ]
    ELSE WithStandardFields(Dispatch(logged, action, params, t), action, t)

\* Variant: a request whose log line cannot be written is answered all the
\* same.
handle_api_request_log_guarded(world, request, t) ==
    Process([log_api_request(world, Get(request, "action", ""),
                             Get(request, "params", EmptyDict), t)
                EXCEPT !.raised = None],
            Get(request, "action", ""), Get(request, "params", EmptyDict), t)

\* handle_api_request: [world, response], the standard fields added; the
\* request is logged first, outside any try.
handle_api_request(world, request, t) ==
    Process(log_api_request(world, Get(request, "action", ""),
                            Get(request, "params", EmptyDict), t),
            Get(request, "action", ""), Get(request, "params", EmptyDict), t)

(***************************************************************************)
(* Inputs.                                                                 *)
(***************************************************************************)
\* output of a start attempt: the text it printed
Outputs == {Some("ERROR: Port already in use")}

Results(passed, failed, skipped) ==
    [ passed |-> passed, failed |-> failed, skipped |-> skipped ]

\* results of a direct record_test_run call: not given, or a payload
ResultsArgs == {None, Some(Results(2, 8, 0)), Some(Results(8, 2, 0))}

\* params of an API request: every parameter may be missing
StartParams ==
    { [k \in {"component", "success"} |->
          IF k = "component" THEN c ELSE ok] : c \in Components, ok \in BOOLEAN }
    \cup { [k \in {"success"} |-> FALSE] }

TestParams ==
    { [k \in {"component", "success"} |->
          IF k = "component" THEN c ELSE ok] : c \in Components, ok \in BOOLEAN }
    \cup { [k \in {"component", "success", "results"} |->
              IF k = "component" THEN c ELSE IF k = "success" THEN ok ELSE Results(1, 1, 0)] :
           c \in Components, ok \in BOOLEAN }
    \cup { [k \in {"success"} |-> FALSE] }

Requests ==
    { [action |-> "record_component_start", params |-> p] : p \in StartParams }
    \cup { [action |-> "record_test_run", params |-> p] : p \in TestParams }
    \cup { [action |-> "no_such_action", params |-> EmptyDict] }

\* inputs of the pure functions
Counts == 0 .. MaxCount
IssueTypes == {"start_failure", "test_failure"}

(***************************************************************************)
(* State machine.                                                          *)
(***************************************************************************)
NoCall == [ op |-> "none" ]

\* the operating-system processes that run the tracker, and one that is
\* not inside a record call
Procs == {"p1", "p2"}
Idle == [ pc |-> "idle" ]
NoProbe == [ fn |-> "none" ]

InitStore ==
    /\ statusFiles = EmptyDict
    /\ tickets = EmptyDict
    /\ notifications = <<>>
    /\ apiLog = <<>>
    /\ nextUuid = 1
    /\ now = 1
    /\ hist = [c \in Components |-> <<>>]
    /\ last = NoCall
    /\ procs = [p \in Procs |-> Idle]
    /\ verifications = EmptyDict
    /\ clock = DAY

Init == InitStore /\ probe = NoProbe

\* the number of record calls made so far and, of these, the test runs
CallsMade == now - 1
TestsMade ==
    Cardinality({ <<c, i>> \in Components \X (1 .. MaxCalls + 1) :
                    i <= Len(hist[c]) /\ hist[c][i].op = "record_test_run" })

HistEntry(op, success) == [ op |-> op, success |-> success ]

\* what a load of the component's status file finds
FileState(files, component) ==
    IF component \notin DOMAIN files THEN "absent"
    ELSE IF files[component] = Malformed THEN "malformed"
    ELSE "readable"

Commit(world) ==
    /\ statusFiles' = world.statusFiles
    /\ tickets' = world.tickets
    /\ notifications' = world.notifications
    /\ nextUuid' = world.nextUuid
    /\ now' = now + 1

\* a direct call record_component_start(component, success, output),
\* during which the files in failing cannot be opened
RecordStartIn(failing, component, success, output) ==
    /\ CallsMade < MaxCalls
    /\ LET r == record_component_start(WorldFailing(failing), component, success, output, now)
       IN  /\ Commit(r.world)
           /\ last' = [ op |-> "record_component_start", via |-> "call",
                        component |-> component, success |-> success,
                        found |-> FileState(statusFiles, component),
                        failing |-> failing, raised |-> r.world.raised,
                        generated |-> r.world.generated, status |-> r.status ]
    /\ hist' = [hist EXCEPT ![component] =
                    Append(@, HistEntry("record_component_start", success))]
    /\ UNCHANGED <<apiLog, procs, probe, verifications, clock>>

\* a direct call record_test_run(component, success, results), during
\* which the files in failing cannot be opened
RecordTestIn(failing, component, success, results) ==
    /\ CallsMade < MaxCalls
    /\ TestsMade < MaxTests
    /\ LET r == record_test_run(WorldFailing(failing), component, success, results, now)
       IN  /\ Commit(r.world)
           /\ last' = [ op |-> "record_test_run", via |-> "call",
                        component |-> component, success |-> success,
                        results |-> results,
                        found |-> FileState(statusFiles, component),
                        failing |-> failing, raised |-> r.world.raised,
                        generated |-> r.world.generated, status |-> r.status ]
    /\ hist' = [hist EXCEPT ![component] =
                    Append(@, HistEntry("record_test_run", success))]
    /\ UNCHANGED <<apiLog, procs, probe, verifications, clock>>

\* a direct call record_component_start(component, success, output)
RecordStart(component, success, output) ==
    /\ CallsMade < MaxCalls
    /\ LET r == record_component_start(World, component, success, output, now)
       IN  /\ Commit(r.world)
           /\ last' = [ op |-> "record_component_start", via |-> "call",
                        component |-> component, success |-> success,
                        found |-> FileState(statusFiles, component),
                        generated |-> r.world.generated, status |-> r.status ]
    /\ hist' = [hist EXCEPT ![component] =
                    Append(@, HistEntry("record_component_start", success))]
    /\ UNCHANGED <<apiLog, procs, probe, verifications, clock>>

\* a direct call record_test_run(component, success, results)
RecordTest(component, success, results) ==
    /\ CallsMade < MaxCalls
    /\ TestsMade < MaxTests
    /\ LET r == record_test_run(World, component, success, results, now)
       IN  /\ Commit(r.world)
           /\ last' = [ op |-> "record_test_run", via |-> "call",
                        component |-> component, success |-> success,
                        results |-> results,
                        found |-> FileState(statusFiles, component),
                        generated |-> r.world.generated, status |-> r.status ]
    /\ hist' = [hist EXCEPT ![component] =
                    Append(@, HistEntry("record_test_run", success))]
    /\ UNCHANGED <<apiLog, procs, probe, verifications, clock>>

Next ==
    \/ \E c \in Components, success \in BOOLEAN, output \in Outputs :
          RecordStart(c, success, output)
    \/ \E c \in Components, success \in BOOLEAN, results \in ResultsArgs :
          RecordTest(c, success, results)

Spec == Init /\ [][Next]_vars

(***************************************************************************)
(* The API shell as a state machine: one request per step.                 *)
(***************************************************************************)
\* what the caller of the API supplied, as the arguments of the record call
Supplied(params, key) == IF key \in DOMAIN params THEN Some(params[key]) ELSE None

\* the state after a request that handle_api_request took to r
Answered(request, r) ==
    LET params == request.params
    IN  /\ Commit(r.world)
        /\ apiLog' = r.world.apiLog
        /\ last' = [ op |-> IF r.response.success THEN request.action ELSE "rejected",
                     via |-> "api",
                     component |-> Get(params, "component", <<>>),
                     success |-> Get(params, "success", FALSE),
                     results |-> Supplied(params, "results"),
                     generated |-> r.world.generated,
                     response |-> r.response ]
        /\ hist' = IF r.response.success
                   THEN [hist EXCEPT ![params.component] =
                             Append(@, HistEntry(request.action, Get(params, "success", FALSE)))]
                   ELSE hist

ApiRequest(request) ==
    /\ Len(apiLog) < MaxRequests
    /\ Answered(request, handle_api_request(World, request, now))
    /\ UNCHANGED <<procs, probe, verifications, clock>>

NextApi == \E request \in Requests : ApiRequest(request)

SpecApi == Init /\ [][NextApi]_vars

(***************************************************************************)
(* The API shell with status queries and ticket updates, one request per   *)
(* step, during which the files in failing cannot be opened.               *)
(***************************************************************************)
\* ticket ids a caller asks about: the first one generated, and one that
\* is never generated
AskedTicketIds == {TicketId(2), TicketId(0)}

UpdatesArgs == { [ status |-> "resolved" ],
                 [ details |-> [ resolution |-> "restarted" ] ] }

\* requests of the four actions, complete and with a required parameter
\* absent or empty
ShellRequests ==
    { [ action |-> "record_component_start",
        params |-> [ component |-> <<"HMS-", "API">>, success |-> ok ] ] : ok \in BOOLEAN }
    \cup { [ action |-> "record_test_run",
             params |-> [ component |-> <<"HMS-", "API">>, success |-> ok,
                          results |-> Results(1, 1, 0) ] ] : ok \in BOOLEAN }
    \cup { [ action |-> "get_component_status", params |-> [ component |-> c ] ] :
           c \in Components }
    \cup { [ action |-> "update_work_ticket",
             params |-> [ ticket_id |-> id, updates |-> u ] ] :
           id \in AskedTicketIds, u \in UpdatesArgs }
    \cup { [ action |-> a, params |-> [ success |-> FALSE ] ] :
           a \in {"record_component_start", "record_test_run", "get_component_status"} }
    \cup { [ action |-> "record_component_start",
             params |-> [ component |-> <<>>, success |-> FALSE ] ] }
    \cup { [ action |-> "update_work_ticket", params |-> p ] :
           p \in { [ updates |-> [ status |-> "resolved" ] ],
                   [ ticket_id |-> <<>>, updates |-> [ status |-> "resolved" ] ],
                   [ ticket_id |-> TicketId(2) ],
                   [ ticket_id |-> TicketId(2), updates |-> EmptyDict ],
                   [ ticket_id |-> TicketId(0), updates |-> EmptyDict ] } }
    \cup { [ action |-> "no_such_action", params |-> EmptyDict ] }

RecordActions == {"record_component_start", "record_test_run"}

\* the state after a request that handle_api_request took to r, or
\* that it raised on
Returned(failing, request, r) ==
    LET params == request.params
        recorded == /\ request.action \in RecordActions
                    /\ Get(params, "component", <<>>) \in Components
    IN  /\ Commit(r.world)
        /\ apiLog' = r.world.apiLog
        /\ last' = [ op |-> "handle_api_request", via |-> "api",
                     request |-> request,
                     failing |-> failing, raised |-> r.world.raised,
                     generated |-> r.world.generated,
                     response |-> r.response ]
        /\ hist' = IF recorded /\ ~Raised(r.world)
                   THEN [hist EXCEPT ![params.component] =
                             Append(@, HistEntry(request.action, Get(params, "success", FALSE)))]
                   ELSE hist

ApiCall(failing, request) ==
    /\ CallsMade < MaxShellCalls
    /\ Returned(failing, request, handle_api_request(WorldFailing(failing), request, now))
    /\ UNCHANGED <<procs, probe, verifications, clock>>

NextShell == \E request \in ShellRequests : ApiCall({}, request)

SpecShell == Init /\ [][NextShell]_vars

ShellFaults == SUBSET {A2A_API_LOG, NOTIFICATIONS_LOG}

NextShellFault ==
    /\ CallsMade < MaxFaultRequests
    /\ \E failing \in ShellFaults, request \in ShellRequests : ApiCall(failing, request)

SpecShellFault == Init /\ [][NextShellFault]_vars

(***************************************************************************)
(* The status store under direct calls: loads, saves and record calls, in  *)
(* an environment where a status file can become unparseable.              *)
(***************************************************************************)
\* status objects a caller hands to update_component_status: a full one,
\* and one with another set of keys
SaveArgs(component) ==
    { [DefaultStatus(component, NoneTime) EXCEPT !.start.attempts = 7,
                                                 !.start.successes = 7,
                                                 !.start.status = "running"],
      [ component |-> component,
        start |-> DefaultStatus(component, NoneTime).start,
        tests |-> DefaultStatus(component, NoneTime).tests,
        issues |-> <<>>,
        note |-> "reset by operator" ] }

\* a direct call get_component_status(component)
GetStatus(component) ==
    /\ LET r == get_component_status_call(World, component, now)
       IN  /\ Commit(r.world)
           /\ last' = [ op |-> "get_component_status", via |-> "call",
                        component |-> component,
                        found |-> FileState(statusFiles, component),
                        status |-> r.status ]
    /\ UNCHANGED <<apiLog, hist, procs, probe, verifications, clock>>

\* a direct call update_component_status(component, status)
SaveStatus(component, status) ==
    /\ statusFiles' = update_component_status(statusFiles, component, status, now)
    /\ now' = now + 1
    /\ last' = [ op |-> "update_component_status", via |-> "call",
                 component |-> component, status |-> status ]
    /\ UNCHANGED <<tickets, notifications, apiLog, nextUuid, hist, procs, probe, verifications, clock>>

\* the status file of a component becomes one that json.load rejects
Corrupt(component) ==
    /\ component \in DOMAIN statusFiles
    /\ statusFiles[component] # Malformed
    /\ statusFiles' = SetKey(statusFiles, component, Malformed)
    /\ last' = [ op |-> "corrupt", component |-> component ]
    /\ UNCHANGED <<tickets, notifications, apiLog, nextUuid, now, hist, procs, probe, verifications, clock>>

NextStore ==
    /\ CallsMade < MaxStoreCalls
    /\ \/ \E c \in Components : GetStatus(c)
       \/ \E c \in Components : \E status \in SaveArgs(c) : SaveStatus(c, status)
       \/ \E c \in Components : Corrupt(c)
       \/ \E c \in Components, success \in BOOLEAN, output \in Outputs :
             RecordStart(c, success, output)
       \/ \E c \in Components, success \in BOOLEAN :
             RecordTest(c, success, None)

SpecStore == Init /\ [][NextStore]_vars

(***************************************************************************)
(* Direct record calls in an environment where the notification log can    *)
(* fail to open during a call.                                             *)
(***************************************************************************)
NotificationFaults == SUBSET {NOTIFICATIONS_LOG}

NextFault ==
    /\ CallsMade < MaxFaultCalls
    /\ \E failing \in NotificationFaults, c \in Components, success \in BOOLEAN :
          \/ \E output \in Outputs : RecordStartIn(failing, c, success, output)
          \/ RecordTestIn(failing, c, success, None)

SpecFault == Init /\ [][NextFault]_vars

(***************************************************************************)
(* Record calls made by several processes at once.  Nothing locks a status *)
(* file: a call is two steps, the load of the status file and, later, the  *)
(* rest of the function, which ends with the save.                         *)
(***************************************************************************)
\* the record calls begun so far
CallsBegun ==
    Cardinality({ <<c, i>> \in Components \X (1 .. MaxConcCalls + 1) : i <= Len(hist[c]) })

\* process p enters record_component_start or record_test_run and loads
\* the status file
BeginCall(p, op, component, success) ==
    /\ procs[p] = Idle
    /\ CallsBegun < MaxConcCalls
    /\ procs' = [procs EXCEPT ![p] =
                    [ pc |-> "loaded", op |-> op, component |-> component,
                      success |-> success,
                      status |-> LoadStatus(statusFiles, component, now) ]]
    /\ hist' = [hist EXCEPT ![component] = Append(@, HistEntry(op, success))]
    /\ now' = now + 1
    /\ last' = [ op |-> "load", proc |-> p, component |-> component ]
    /\ UNCHANGED <<statusFiles, tickets, notifications, apiLog, nextUuid, probe, verifications, clock>>

\* Faulty variant: the status file is read again when the call goes on.
ReloadedStatus(p) == LoadStatus(statusFiles, procs[p].component, now)

\* the status object process p works on
LoadedStatus(p) == procs[p].status

\* process p runs the rest of its call, to the save
FinishCall(p) ==
    /\ procs[p].pc = "loaded"
    /\ LET call == procs[p]
           r == IF call.op = "record_component_start"
                THEN record_component_start_from(World, LoadedStatus(p), call.component,
                                                 call.success, None, now)
                ELSE record_test_run_from(World, LoadedStatus(p), call.component,
                                          call.success, None, now)
       IN  /\ Commit(r.world)
           /\ last' = [ op |-> call.op, via |-> "process", proc |-> p,
                        component |-> call.component, success |-> call.success,
                        loaded |-> call.status, overwritten |-> get_component_status(call.component),
                        generated |-> r.world.generated, status |-> r.status ]
    /\ procs' = [procs EXCEPT ![p] = Idle]
    /\ UNCHANGED <<apiLog, hist, probe, verifications, clock>>

NextConc ==
    \E p \in Procs :
        \/ \E c \in Components, success \in BOOLEAN :
              \/ BeginCall(p, "record_component_start", c, success)
              \/ BeginCall(p, "record_test_run", c, success)
        \/ FinishCall(p)

SpecConc == Init /\ [][NextConc]_vars

(***************************************************************************)
(* Work tickets under direct calls: failing record calls generate them,    *)
(* update_work_ticket changes them.                                        *)
(***************************************************************************)
MaxTicketCalls == 3  \* direct calls in one behaviour of the ticket store

\* the ids of the first two tickets generated, and one never generated
UpdatedTicketIds == {TicketId(2), TicketId(4), TicketId(0)}

\* updates a caller passes: of a plain field, of details by a dict with a
\* new key and with a key the generator set, of details by a value that is
\* not a dict, with an updated_at of the caller's, and of the fields the
\* generator assigned
TicketUpdates ==
    { [ status |-> "resolved" ],
      [ details |-> [ resolution |-> "restarted" ] ],
      [ details |-> [ description |-> <<"superseded">> ] ],
      [ details |-> Scalar("n/a") ],
      [ status |-> "in_progress", updated_at |-> NoneTime ],
      [ id |-> TicketId(0) ],
      [ component |-> <<"HMS-", "DOC">>, issue_id |-> 0, created_at |-> NoneTime ] }

\* a direct call update_work_ticket(ticket_id, updates)
UpdateTicket(ticket_id, updates) ==
    /\ LET r == update_work_ticket(World, ticket_id, updates, now)
       IN  /\ Commit(r.world)
           /\ last' = [ op |-> "update_work_ticket", via |-> "call",
                        ticket_id |-> ticket_id, updates |-> updates,
                        raised |-> r.world.raised, ticket |-> r.ticket ]
    /\ UNCHANGED <<apiLog, hist, procs, probe, verifications, clock>>

NextTickets ==
    /\ CallsMade < MaxTicketCalls
    /\ \/ \E c \in Components, output \in Outputs : RecordStart(c, FALSE, output)
       \/ RecordTest(<<"HMS-", "API">>, FALSE, None)
       \/ \E id \in UpdatedTicketIds, updates \in TicketUpdates : UpdateTicket(id, updates)

SpecTickets == Init /\ [][NextTickets]_vars

(***************************************************************************)
(* Agent verification (agent-verification.py) and the gate of the MCP      *)
(* adapter (mcp-verification-adapter.py).  A component argument is the     *)
(* sequence of its pieces; <<>> stands for "" and for None, which every    *)
(* test of the code ("if component") treats alike.                         *)
(***************************************************************************)
VERIFICATION_VALIDITY_DAYS == 30

\* VERIFICATION_VALIDITY_DAYS * 24 * 60 * 60
ValiditySeconds == VERIFICATION_VALIDITY_DAYS * DAY

Elements(list) == { list[i] : i \in DOMAIN list }

\* Variant: an empty component is verified for by nobody.
agent_verification_check_component_required(files, agent_id, component, t) ==
    IF agent_id \notin DOMAIN files THEN FALSE
    ELSE IF t > Get(files[agent_id], "expiry", 0) THEN FALSE
    ELSE component \in Elements(Get(files[agent_id], "verified_components", <<>>))

\* agent_verification_check: no file, False; past the expiry, False; a
\* component given that is not in verified_components, False; else True.
agent_verification_check(files, agent_id, component, t) ==
    IF agent_id \notin DOMAIN files THEN FALSE
    ELSE IF t > Get(files[agent_id], "expiry", 0) THEN FALSE
    ELSE IF /\ component # <<>>
            /\ component \notin Elements(Get(files[agent_id], "verified_components", <<>>))
         THEN FALSE
    ELSE TRUE

\* "if component not in data['verified_components']: ....append(component)"
WithComponent(data, component) ==
    LET listed == Get(data, "verified_components", <<>>)
    IN  SetKey(data, "verified_components",
               IF component \in Elements(listed) THEN listed ELSE Append(listed, component))

\* save_agent_verification: the files after it; agent_id, timestamp and
\* expiry are set on what the file held, the component is added.
save_agent_verification(files, agent_id, component, t) ==
    LET data0 == IF agent_id \in DOMAIN files THEN files[agent_id] ELSE EmptyDict
        data1 == SetKey(SetKey(SetKey(data0, "agent_id", agent_id), "timestamp", t),
                        "expiry", t + ValiditySeconds)
    IN  SetKey(files, agent_id,
               IF component = <<>> THEN data1 ELSE WithComponent(data1, component))

\* "required_correct = max(1, len(questions) * 7 // 10)"
RequiredCorrect(questions) ==
    IF (questions * 7) \div 10 > 1 THEN (questions * 7) \div 10 ELSE 1

\* conduct_agent_verification with the given number of questions drawn:
\* [files, passed]; every question is counted as answered correctly.
conduct_agent_verification(files, agent_id, component, questions, t) ==
    IF questions = 0
    THEN [ files |-> files, passed |-> FALSE ]
    ELSE IF questions >= RequiredCorrect(questions)
    THEN [ files |-> save_agent_verification(files, agent_id, component, t),
           passed |-> TRUE ]
    ELSE [ files |-> files, passed |-> FALSE ]

\* mcp_response(success, data, error)
BlockData(agent_id, component, operation, allowed) ==
    [ agent_id |-> agent_id, component |-> component, operation |-> operation,
      allowed |-> allowed,
      message |-> IF allowed THEN <<"allowed", operation>>
                  ELSE <<"blocked", operation, component>> ]

\* block_if_unverified: the MCP response
block_if_unverified(files, agent_id, component, operation, t) ==
    IF agent_verification_check(files, agent_id, component, t)
    THEN [ success |-> TRUE, timestamp |-> t,
           data |-> BlockData(agent_id, component, operation, TRUE) ]
    ELSE [ success |-> FALSE, timestamp |-> t,
           data |-> BlockData(agent_id, component, operation, FALSE),
           error |-> "Verification required" ]

MaxVerifySteps == 5  \* verifications, gated operations and lapses of time in one behaviour

\* the verifications conducted: <<agent, component, questions drawn>>
VerifyArgs ==
    { <<"agent-1", <<"HMS-", "API">>, 5>>,
      <<"agent-1", <<"HMS-", "DEV">>, 5>>,
      <<"agent-1", <<>>, 7>>,
      <<"agent-1", <<"HMS-", "API">>, 0>> }

\* the operations gated: <<agent, component>>; handle_mcp_request passes
\* "" for a component the request does not name
BlockArgs ==
    { <<"agent-1", <<"HMS-", "API">> >>,
      <<"agent-1", <<"HMS-", "DEV">> >>,
      <<"agent-1", <<>> >>,
      <<"agent-2", <<"HMS-", "API">> >> }

\* time that passes between calls, in seconds
Elapsed == {1, ValiditySeconds}

StepsMade == now - 1

\* conduct_agent_verification(agent_id, component)
ConductVerification(agent_id, component, questions) ==
    /\ LET r == conduct_agent_verification(verifications, agent_id, component,
                                           questions, clock)
       IN  /\ verifications' = r.files
           /\ last' = [ op |-> "conduct_agent_verification", agent_id |-> agent_id,
                        component |-> component, questions |-> questions,
                        passed |-> r.passed ]
    /\ now' = now + 1
    /\ UNCHANGED <<statusFiles, tickets, notifications, apiLog, nextUuid, hist, procs,
                   probe, clock>>

\* block_if_unverified(agent_id, component, operation)
BlockIfUnverified(agent_id, component, operation) ==
    /\ last' = [ op |-> "block_if_unverified", agent_id |-> agent_id,
                 component |-> component,
                 response |-> block_if_unverified(verifications, agent_id, component,
                                                  operation, clock) ]
    /\ now' = now + 1
    /\ UNCHANGED <<statusFiles, tickets, notifications, apiLog, nextUuid, hist, procs,
                   probe, verifications, clock>>

\* time passes
Elapse(seconds) ==
    /\ clock' = clock + seconds
    /\ now' = now + 1
    /\ last' = [ op |-> "elapse", seconds |-> seconds ]
    /\ UNCHANGED <<statusFiles, tickets, notifications, apiLog, nextUuid, hist, procs,
                   probe, verifications>>

NextVerify ==
    /\ StepsMade < MaxVerifySteps
    /\ \/ \E v \in VerifyArgs : ConductVerification(v[1], v[2], v[3])
       \/ \E b \in BlockArgs : BlockIfUnverified(b[1], b[2], "deploy")
       \/ \E seconds \in Elapsed : Elapse(seconds)

SpecVerify == Init /\ [][NextVerify]_vars

(***************************************************************************)
(* The pure functions, applied to inputs drawn by the initial state.       *)
(***************************************************************************)
OperationalStatuses == {"unknown", "operational", "degraded", "offline"}

\* a status object with the given sub-statuses and previous aggregate
StatusWith(start_status, test_status, operational_status) ==
    [DefaultStatus(<<"HMS-", "API">>, 1) EXCEPT
        !.start.status = start_status,
        !.tests.status = test_status,
        !.operational_status = operational_status]

ProbeInputs ==
    { [ fn |-> "update_operational_status", applied |-> FALSE,
        status |-> StatusWith(s, t, o) ] :
      s \in StartStatuses, t \in TestStatuses, o \in OperationalStatuses }
    \cup
    { [ fn |-> "generate_work_ticket", applied |-> FALSE,
        component |-> c, issue_type |-> "test_failure",
        issue |-> TestIssue(c, 1, res, 1) ] :
      c \in Components,
      res \in {EmptyDict} \cup { Results(p, f, k) : p \in Counts, f \in Counts, k \in {0, 1} } }
    \cup
    { [ fn |-> "generate_work_ticket", applied |-> FALSE,
        component |-> c, issue_type |-> "start_failure",
        issue |-> StartIssue(c, 1, out, 1) ] :
      c \in Components, out \in Outputs }

\* component arguments no caller validates: identifiers in which "HMS-" is
\* not the prefix, or occurs again after it
AnyComponents ==
    Components \cup {<<"HMS-", "HMS-", "API">>, <<"SUB-", "HMS-", "API">>, <<"payments">>}

AnyIssueTypes == IssueTypes \cup {"security_alert"}

AgentProbeInputs ==
    { [ fn |-> "determine_responsible_agent", applied |-> FALSE,
        component |-> c, issue_type |-> ty ] :
      c \in AnyComponents, ty \in AnyIssueTypes }

InitFn == InitStore /\ probe \in ProbeInputs \cup AgentProbeInputs

ApplyRule ==
    /\ probe.fn = "update_operational_status"
    /\ ~probe.applied
    /\ probe' = [ fn |-> probe.fn, applied |-> TRUE, status |-> probe.status,
                  out |-> update_operational_status(probe.status) ]
    /\ UNCHANGED <<statusFiles, tickets, notifications, apiLog, nextUuid, now, hist, last, procs, verifications, clock>>

ApplyTicket ==
    /\ probe.fn = "generate_work_ticket"
    /\ ~probe.applied
    /\ probe' = [ fn |-> probe.fn, applied |-> TRUE, component |-> probe.component,
                  issue_type |-> probe.issue_type, issue |-> probe.issue,
                  out |-> NewTicket(probe.component, probe.issue_type, probe.issue,
                                    nextUuid, now) ]
    /\ UNCHANGED <<statusFiles, tickets, notifications, apiLog, nextUuid, now, hist, last, procs, verifications, clock>>

ApplyAgent ==
    /\ probe.fn = "determine_responsible_agent"
    /\ ~probe.applied
    /\ probe' = [ fn |-> probe.fn, applied |-> TRUE, component |-> probe.component,
                  issue_type |-> probe.issue_type,
                  out |-> determine_responsible_agent(probe.component, probe.issue_type) ]
    /\ UNCHANGED <<statusFiles, tickets, notifications, apiLog, nextUuid, now, hist, last, procs, verifications, clock>>

NextFn == ApplyRule \/ ApplyTicket \/ ApplyAgent

SpecFn == InitFn /\ [][NextFn]_vars


(***************************************************************************)
(* Properties.                                                             *)
(***************************************************************************)
Persisted == DOMAIN statusFiles

F_START == HistEntry("record_component_start", FALSE)
S_START == HistEntry("record_component_start", TRUE)

TicketsOf(component) == { id \in DOMAIN tickets : tickets[id].component = component }

\* The nine literal cases of the precedence table (section 4.2):
\* <<start status, tests status, operational status>>.
PrecedenceTable ==
    { <<"unknown", "unknown", "unknown">>,
      <<"unknown", "passing", "unknown">>,
      <<"unknown", "failing", "unknown">>,
      <<"running", "unknown", "unknown">>,
      <<"failed",  "unknown", "unknown">>,
      <<"failed",  "passing", "offline">>,
      <<"failed",  "failing", "offline">>,
      <<"running", "failing", "degraded">>,
      <<"running", "passing", "operational">> }

FollowsTable(status) ==
    <<status.start.status, status.tests.status, status.operational_status>>
        \in PrecedenceTable

\* the step just taken was a direct record call of this kind
StartCalled == last.op = "record_component_start"
TestCalled == last.op = "record_test_run"

\* C1: after any sequence of record_component_start and record_test_run
\* calls, the operational_status of every persisted status record is the
\* value the precedence table gives for the start and tests statuses saved
\* with it.
C1_OperationalStatusDerived ==
    \A c \in Persisted : FollowsTable(statusFiles[c])

C1_Witness ==
    /\ TestCalled
    /\ \E c \in Persisted : statusFiles[c].operational_status = "offline"
    /\ \E c \in Persisted : statusFiles[c].operational_status = "operational"

\* C2: for every pair of start and tests status, whatever the previous
\* aggregate, update_operational_status sets the value the ordered rules
\* give: either unknown -> unknown, else failed -> offline, else failing ->
\* degraded, else running and passing -> operational, otherwise degraded.
C2_RuleMatchesTable ==
    (probe.fn = "update_operational_status" /\ probe.applied) =>
        /\ FollowsTable(probe.out)
        /\ probe.out.start = probe.status.start
        /\ probe.out.tests = probe.status.tests

C2_Witness ==
    /\ probe.fn = "update_operational_status"
    /\ probe.applied
    /\ probe.status.start.status = "failed"
    /\ probe.status.tests.status = "unknown"
    /\ probe.status.operational_status = "operational"
    /\ probe.out.operational_status = "unknown"

\* C3 as stated: a component that started successfully and never had a
\* test run recorded (start running, tests unknown) is degraded.
C3_RunningUntestedIsDegraded ==
    \A c \in Persisted :
        (statusFiles[c].start.status = "running" /\ statusFiles[c].tests.status = "unknown")
            => statusFiles[c].operational_status = "degraded"

\* C3 amended: a component that started successfully and never had a test
\* run recorded (start running, tests unknown) has operational status
\* unknown: the unknown check comes first.
C3_RunningUntestedIsUnknown ==
    \A c \in Persisted :
        (statusFiles[c].start.status = "running" /\ statusFiles[c].tests.status = "unknown")
            => statusFiles[c].operational_status = "unknown"

C3_Witness ==
    /\ StartCalled
    /\ last.success
    /\ statusFiles[last.component].start.status = "running"
    /\ statusFiles[last.component].tests.status = "unknown"
    /\ statusFiles[last.component].tests.total_runs = 0

\* C4: every failing record_component_start call adds one to start.attempts
\* and to start.failures, sets start.status to failed and appends exactly
\* one open start_failure issue; it generates a work ticket if and only if
\* start.failures is then strictly greater than start.successes.
C4_FailingStart ==
    [][ (last'.op = "record_component_start" /\ ~last'.success) =>
          LET c == last'.component
              old == get_component_status(c)
              new == statusFiles'[c]
              added == DOMAIN tickets' \ DOMAIN tickets
          IN  /\ new.start.attempts = old.start.attempts + 1
              /\ new.start.failures = old.start.failures + 1
              /\ new.start.status = "failed"
              /\ Len(new.issues) = Len(old.issues) + 1
              /\ SubSeq(new.issues, 1, Len(old.issues)) = old.issues
              /\ new.issues[Len(new.issues)].type = "start_failure"
              /\ new.issues[Len(new.issues)].status = "open"
              /\ (added # {}) <=> (new.start.failures > new.start.successes)
              /\ Cardinality(added) <= 1
              /\ \A id \in added : tickets'[id].issue_id = new.issues[Len(new.issues)].id
      ]_vars

\* a failing start that brought failures level with successes: no ticket
C4_Witness ==
    /\ StartCalled
    /\ ~last.success
    /\ last.generated = {}
    /\ statusFiles[last.component].start.failures = statusFiles[last.component].start.successes
    /\ Len(statusFiles[last.component].issues) = 1

\* C5: for a component with no persisted record, one successful
\* record_component_start followed by get_component_status yields
\* successes 1, attempts 1, failures 0, status running, no issue, no ticket.
C5_FirstSuccessfulStart ==
    \A c \in Components :
        hist[c] = <<S_START>> =>
            LET status == get_component_status(c)
            IN  /\ status.start.successes = 1
                /\ status.start.attempts = 1
                /\ status.start.failures = 0
                /\ status.start.status = "running"
                /\ status.issues = <<>>
                /\ TicketsOf(c) = {}

C5_Witness ==
    \E c \in Components :
        /\ hist[c] = <<S_START>>
        /\ last.op = "record_component_start"
        /\ last.component = c
        /\ c \in Persisted

\* C6: from no persisted record, three failing starts and then a
\* successful one leave attempts 4, failures 3, successes 1, and the
\* second failure generated a ticket.
C6_ThreeFailuresThenSuccess ==
    \A c \in Components :
        hist[c] = <<F_START, F_START, F_START, S_START>> =>
            LET status == get_component_status(c)
            IN  /\ status.start.attempts = 4
                /\ status.start.failures = 3
                /\ status.start.successes = 1
                /\ Len(status.issues) = 3
                /\ \E id \in TicketsOf(c) :
                      /\ tickets[id].issue_id = status.issues[2].id
                      /\ tickets[id].issue_type = "start_failure"

C6_Witness ==
    \E c \in Components :
        /\ hist[c] = <<F_START, F_START, F_START, S_START>>
        /\ Cardinality(TicketsOf(c)) = 3

\* the failures and successes a failing call of the kind just made counts
FailuresOf(status, op) ==
    IF op = "record_component_start" THEN status.start.failures
    ELSE status.tests.total_failed
SuccessesOf(status, op) ==
    IF op = "record_component_start" THEN status.start.successes
    ELSE status.tests.total_passed

\* C7: once the failures of a component exceed its successes, every
\* further failing record call creates exactly one new ticket record, for
\* the issue it appended, whatever tickets are open; every ticket record
\* that existed is still there, unchanged.
C7_NoDeduplication ==
    [][ ( /\ last'.op \in {"record_component_start", "record_test_run"}
          /\ ~last'.success
          /\ LET old == get_component_status(last'.component)
             IN  FailuresOf(old, last'.op) > SuccessesOf(old, last'.op) )
        =>
          LET c == last'.component
              new == statusFiles'[c]
              added == DOMAIN tickets' \ DOMAIN tickets
          IN  /\ Cardinality(added) = 1
              /\ \A id \in added :
                    /\ tickets'[id].issue_id = new.issues[Len(new.issues)].id
                    /\ tickets'[id].component = c
                    /\ tickets'[id].id = id
              /\ \A id \in DOMAIN tickets :
                    id \in DOMAIN tickets' /\ tickets'[id] = tickets[id]
      ]_vars

\* a ticket generated while two earlier tickets of the same component and
\* issue type are open
C7_Witness ==
    /\ last.op \in {"record_component_start", "record_test_run"}
    /\ last.generated # {}
    /\ \E new \in last.generated :
          Cardinality({ id \in DOMAIN tickets :
                          /\ id # new
                          /\ tickets[id].status = "open"
                          /\ tickets[id].component = tickets[new].component
                          /\ tickets[id].issue_type = tickets[new].issue_type }) = 2

\* C8: every record_test_run call adds one to tests.total_runs; a
\* successful one adds one to total_passed and sets tests.status to
\* passing; a failing one adds one to total_failed, sets tests.status to
\* failing and appends one open test_failure issue, and generates a ticket
\* if and only if total_failed is then greater than total_passed.
C8_RecordTestRun ==
    [][ (last'.op = "record_test_run") =>
          LET c == last'.component
              old == get_component_status(c)
              new == statusFiles'[c]
              added == DOMAIN tickets' \ DOMAIN tickets
          IN  /\ new.tests.total_runs = old.tests.total_runs + 1
              /\ last'.success =>
                    /\ new.tests.total_passed = old.tests.total_passed + 1
                    /\ new.tests.status = "passing"
              /\ ~last'.success =>
                    /\ new.tests.total_failed = old.tests.total_failed + 1
                    /\ new.tests.status = "failing"
                    /\ Len(new.issues) = Len(old.issues) + 1
                    /\ SubSeq(new.issues, 1, Len(old.issues)) = old.issues
                    /\ new.issues[Len(new.issues)].type = "test_failure"
                    /\ new.issues[Len(new.issues)].status = "open"
                    /\ (added # {}) <=> (new.tests.total_failed > new.tests.total_passed)
                    /\ Cardinality(added) <= 1
      ]_vars

\* a failing test run that brought total_failed level with total_passed
C8_Witness ==
    /\ TestCalled
    /\ ~last.success
    /\ last.generated = {}
    /\ statusFiles[last.component].tests.total_failed = 1
    /\ statusFiles[last.component].tests.total_passed = 1
    /\ statusFiles[last.component].tests.status = "failing"

\* C9 as stated: after every record_test_run, by a direct call or by an
\* API request, tests.last_results of the persisted record is the results
\* payload the caller gave, and {passed: 0, failed: 0, skipped: 0} when the
\* caller gave none.
C9_LastResultsDefaulted ==
    TestCalled =>
        statusFiles[last.component].tests.last_results = ResultsOrDefault(last.results)

\* C10: a ticket generated for a start_failure has priority high; one for
\* a test_failure has priority high if and only if total = failed + passed
\* + skipped is positive and 2 * failed > total, and medium otherwise
\* (passed 2, failed 8: high; passed 8, failed 2: medium).
C10_TicketPriority ==
    (probe.fn = "generate_work_ticket" /\ probe.applied) =>
        LET priority == probe.out.priority
            results == probe.issue.details.results
            counted == DOMAIN results # {}
            failed == IF counted THEN results.failed ELSE 0
            total == IF counted THEN results.failed + results.passed + results.skipped ELSE 0
        IN  /\ probe.issue_type = "start_failure" => priority = "high"
            /\ probe.issue_type = "test_failure" =>
                  /\ priority \in {"high", "medium"}
                  /\ priority = "high" <=> (total > 0 /\ 2 * failed > total)
                  /\ results = Results(2, 8, 0) => priority = "high"
                  /\ results = Results(8, 2, 0) => priority = "medium"

\* exactly half of the tests failed: medium
C10_Witness ==
    /\ probe.fn = "generate_work_ticket"
    /\ probe.applied
    /\ probe.issue_type = "test_failure"
    /\ probe.issue.details.results = Results(1, 1, 0)
    /\ probe.out.priority = "medium"

\* the identifier with a leading "HMS-" replaced by "HMS-AGT-", and
\* unchanged when it does not start with "HMS-"
WithPrefixReplaced(component) ==
    IF component # <<>> /\ Head(component) = "HMS-"
    THEN <<"HMS-AGT-">> \o Tail(component)
    ELSE component

HMS_DEV == <<"HMS-", "DEV">>

AgentDetermined ==
    \/ probe.fn = "determine_responsible_agent" /\ probe.applied
    \/ probe.fn = "generate_work_ticket" /\ probe.applied

AgentOut ==
    IF probe.fn = "generate_work_ticket" THEN probe.out.assigned_to ELSE probe.out

IsDefault(status, component) ==
    /\ SetKey(SetKey(status, "created_at", NoneTime), "last_updated", NoneTime)
          = DefaultStatus(component, NoneTime)
    /\ status.start.attempts = 0 /\ status.start.successes = 0
    /\ status.start.failures = 0 /\ status.start.status = "unknown"
    /\ status.tests.total_runs = 0 /\ status.tests.total_passed = 0
    /\ status.tests.total_failed = 0 /\ status.tests.status = "unknown"
    /\ status.issues = <<>>
    /\ status.operational_status = "unknown"

\* C14: get_component_status on a component with no persisted record
\* returns the default record (counters 0, start and tests status unknown,
\* no issue, operational status unknown) and writes nothing: the status
\* files, the tickets and the logs are as before, so a repeated load finds
\* no record again and returns the same default.
C14_LoadOfAbsentIsDefault ==
    [][ (last'.op = "get_component_status" /\ last'.found = "absent") =>
          /\ IsDefault(last'.status, last'.component)
          /\ statusFiles' = statusFiles
          /\ tickets' = tickets
          /\ notifications' = notifications
          /\ last'.component \notin DOMAIN statusFiles'
      ]_vars

\* the same absent component loaded for the third time in a row
C14_Witness ==
    /\ last.op = "get_component_status"
    /\ last.found = "absent"
    /\ CallsMade = 3
    /\ statusFiles = EmptyDict
    /\ IsDefault(last.status, last.component)

\* the counters of a status record
Counted(status) ==
    status.start.attempts + status.start.successes + status.start.failures
    + status.tests.total_runs + status.tests.total_passed + status.tests.total_failed

\* C15: a status file that does not parse is treated as absent: a load
\* returns the default record and leaves the file as it is; the next
\* record_component_start or record_test_run on the component returns
\* normally and overwrites the file with a record counting that one call
\* only, whose issue list holds at most the issue of that call.
C15_MalformedTreatedAsAbsent ==
    [][ /\ (last'.op = "get_component_status" /\ last'.found = "malformed") =>
              /\ IsDefault(last'.status, last'.component)
              /\ statusFiles' = statusFiles
        /\ (last'.op \in {"record_component_start", "record_test_run"}
              /\ last'.found = "malformed") =>
              LET c == last'.component
                  new == statusFiles'[c]
              IN  /\ new # Malformed
                  /\ new = last'.status
                  /\ new.created_at = now
                  /\ new.start.attempts + new.tests.total_runs = 1
                  /\ Counted(new) = 2
                  /\ Len(new.issues) = IF last'.success THEN 0 ELSE 1
                  /\ \A i \in DOMAIN new.issues : new.issues[i].timestamp = now
      ]_vars

\* a record call that found the file of a component with two earlier
\* recorded calls unparseable: the new record counts one call
C15_Witness ==
    /\ last.op = "record_component_start"
    /\ last.found = "malformed"
    /\ Len(hist[last.component]) = 3
    /\ statusFiles[last.component].start.attempts = 1
    /\ statusFiles[last.component].issues = <<>>

C12_NotificationBestEffort ==
    [][ ( /\ last'.op \in {"record_component_start", "record_test_run"}
          /\ NOTIFICATIONS_LOG \in last'.failing
          /\ last'.generated # {} )
        =>
          LET c == last'.component
              old == get_component_status(c)
          IN  /\ last'.raised = None
              /\ last'.generated \subseteq DOMAIN tickets'
              /\ c \in DOMAIN statusFiles'
              /\ Len(statusFiles'[c].issues) = Len(old.issues) + 1
              /\ statusFiles'[c].start.attempts + statusFiles'[c].tests.total_runs
                    = old.start.attempts + old.tests.total_runs + 1
      ]_vars

\* the calls a status record counts: start attempts and test runs
CallsCounted(status) == status.start.attempts + status.tests.total_runs

\* the record calls on a component that ran to their save, given the
\* calls begun and the processes
CallsFinished(begun, processes, component) ==
    Len(begun[component])
        - Cardinality({ p \in Procs : /\ processes[p].pc = "loaded"
                                      /\ processes[p].component = component })

\* C13: nothing coordinates two processes in record calls on the same
\* component: the record a call saves is computed from the status that
\* call loaded, whatever was saved to the file since, so a save made
\* between the load and the save of another call is overwritten (the last
\* writer wins) and the persisted record counts fewer calls than were made.
C13_LastWriterWins ==
    [][ \A p \in Procs :
          (procs[p].pc = "loaded" /\ procs'[p] = Idle) =>
              LET c == procs[p].component
                  loaded == procs[p].status
                  current == get_component_status(c)
                  new == statusFiles'[c]
              IN  /\ CallsCounted(new) = CallsCounted(loaded) + 1
                  /\ Len(new.issues) = Len(loaded.issues) + (IF procs[p].success THEN 0 ELSE 1)
                  /\ SubSeq(new.issues, 1, Len(loaded.issues)) = loaded.issues
                  /\ CallsCounted(current) > CallsCounted(loaded)
                        => CallsCounted(new) <= CallsCounted(current)
                  /\ CallsCounted(new) <= CallsFinished(hist', procs', c)
      ]_vars

\* two failing starts of the same component, by two processes, both run to
\* their save: one attempt and one issue persisted, two tickets, one of
\* them for the issue that is lost
C13_Witness ==
    \E c \in Components :
        /\ hist[c] = <<F_START, F_START>>
        /\ \A p \in Procs : procs[p] = Idle
        /\ last.via = "process"
        /\ statusFiles[c].start.attempts = 1
        /\ statusFiles[c].start.failures = 1
        /\ Len(statusFiles[c].issues) = 1
        /\ Cardinality(TicketsOf(c)) = 2
        /\ \E id \in TicketsOf(c) :
              \A i \in DOMAIN statusFiles[c].issues :
                  statusFiles[c].issues[i].id # tickets[id].issue_id

\* the step just taken was an API request to the shell
Requested == last.op = "handle_api_request"

\* the readable status records
Readable(files) == { c \in DOMAIN files : files[c] # Malformed }

MissingOf(request) ==
    LET params == request.params
    IN  IF request.action \in {"record_component_start", "record_test_run",
                               "get_component_status"}
        THEN IF Get(params, "component", <<>>) = <<>> THEN {"component"} ELSE {}
        ELSE IF request.action = "update_work_ticket"
        THEN IF Get(params, "ticket_id", <<>>) = <<>> THEN {"ticket_id"}
             ELSE IF Get(params, "updates", EmptyDict) = EmptyDict THEN {"updates"}
             ELSE {}
        ELSE {}

\* C18: a request that lacks a required parameter (component for
\* record_component_start, record_test_run and get_component_status;
\* ticket_id or updates for update_work_ticket), absent or empty, is
\* answered with success false and an error naming the parameter, and
\* leaves every status record and every ticket record as it was.
C18_MissingParameterRejected ==
    [][ (last'.op = "handle_api_request" /\ MissingOf(last'.request) # {}) =>
          /\ last'.raised = None
          /\ last'.response.success = FALSE
          /\ \E name \in MissingOf(last'.request) :
                last'.response.error = <<"Missing required parameter", name>>
          /\ statusFiles' = statusFiles
          /\ tickets' = tickets
          /\ notifications' = notifications
      ]_vars

\* an update of an existing ticket with empty updates, rejected
C18_Witness ==
    /\ Requested
    /\ last.request.action = "update_work_ticket"
    /\ "ticket_id" \in DOMAIN last.request.params
    /\ last.request.params.ticket_id \in DOMAIN tickets
    /\ "updates" \in DOMAIN last.request.params
    /\ last.request.params.updates = EmptyDict
    /\ last.response.success = FALSE
    /\ last.response.error = <<"Missing required parameter", "updates">>

C20_AlwaysStructuredResponse ==
    Requested =>
        /\ last.raised = None
        /\ "success" \in DOMAIN last.response
        /\ last.response.success \in BOOLEAN
        /\ ~last.response.success => "error" \in DOMAIN last.response

\* the step just taken was a direct call update_work_ticket
TicketUpdated == last.op = "update_work_ticket"

\* what a ticket's details are after a details update by value
DetailsAfter(old, value) ==
    IF ~IsDict(value) THEN value
    ELSE [k \in DOMAIN old.details \cup DOMAIN value |->
             IF k \in DOMAIN value THEN value[k] ELSE old.details[k]]

\* the ticket old, updated at time t, is the ticket new
UpdatedAs(old, updates, t, new) ==
    /\ DOMAIN new = DOMAIN old \cup DOMAIN updates \cup {"updated_at"}
    /\ new.updated_at = t
    /\ \A k \in DOMAIN new \ {"updated_at", "details"} :
          new[k] = IF k \in DOMAIN updates THEN updates[k] ELSE old[k]
    /\ new.details = IF "details" \in DOMAIN updates
                     THEN DetailsAfter(old, updates.details)
                     ELSE old.details

\* C21 as stated: update_work_ticket on an existing ticket merges a
\* dict-valued details update key by key, replaces every other updated
\* field, keeps the fields not named, always sets updated_at to the time of
\* the call, and changes no other ticket.
C21_UpdateAlwaysApplied ==
    [][ (last'.op = "update_work_ticket" /\ last'.ticket_id \in DOMAIN tickets) =>
          /\ last'.raised = None
          /\ DOMAIN tickets' = DOMAIN tickets
          /\ \A id \in DOMAIN tickets \ {last'.ticket_id} : tickets'[id] = tickets[id]
          /\ tickets'[last'.ticket_id].updated_at = now
      ]_vars

\* C21, amended: update_work_ticket on an existing ticket whose details
\* are a dict merges a dict-valued details update key by key (the other
\* detail keys keep their values), replaces every other updated field
\* (details included, when the value is not a dict), keeps the fields not
\* named, sets updated_at to the time of the call whatever the updates say,
\* returns the ticket it wrote and changes no other ticket and no status
\* record; on a ticket whose details an earlier update replaced by a value
\* that is not a dict, a non-empty dict-valued details update raises
\* TypeError and no ticket is changed, updated_at included.
C21_UpdateMergesDetails ==
    [][ (last'.op = "update_work_ticket" /\ last'.ticket_id \in DOMAIN tickets) =>
          /\ DOMAIN tickets' = DOMAIN tickets
          /\ \A id \in DOMAIN tickets \ {last'.ticket_id} : tickets'[id] = tickets[id]
          /\ statusFiles' = statusFiles
          /\ IF MergeFails(tickets[last'.ticket_id], last'.updates)
             THEN /\ last'.raised = Some(TypeError)
                  /\ tickets' = tickets
             ELSE /\ last'.raised = None
                  /\ UpdatedAs(tickets[last'.ticket_id], last'.updates, now,
                               tickets'[last'.ticket_id])
                  /\ last'.ticket = tickets'[last'.ticket_id]
      ]_vars

\* a ticket after two details updates by dicts: the keys the generator
\* set are there, one of them with the updated value, next to the new key
C21_Witness ==
    /\ TicketUpdated
    /\ last.raised = None
    /\ last.updates = [ details |-> [ description |-> <<"superseded">> ] ]
    /\ LET ticket == tickets[last.ticket_id]
       IN  /\ ticket.details.description = <<"superseded">>
           /\ "resolution" \in DOMAIN ticket.details
           /\ ticket.details.resolution = "restarted"
           /\ ticket.details.issue.id = ticket.issue_id
           /\ ticket.updated_at > ticket.created_at

\* the step just taken was a call block_if_unverified
Gated == last.op = "block_if_unverified"

\* the agent has a verification record that has not expired and lists the
\* component
VerifiedFor(agent_id, component) ==
    /\ agent_id \in DOMAIN verifications
    /\ clock <= verifications[agent_id].expiry
    /\ "verified_components" \in DOMAIN verifications[agent_id]
    /\ component \in Elements(verifications[agent_id].verified_components)

\* C22 as stated: block_if_unverified answers allowed (and success) true
\* if and only if the agent has a verification record, the time is not
\* past its expiry and the component is in its verified_components, and
\* otherwise allowed false with the error 'Verification required'; a
\* verification with at least one question passes, and from it on the
\* record lists the component and expires 30 days after the agent's
\* latest passing verification.
C22_AllowedIffVerified ==
    /\ Gated =>
          /\ last.response.data.allowed = VerifiedFor(last.agent_id, last.component)
          /\ last.response.success = last.response.data.allowed
          /\ ~last.response.data.allowed =>
                /\ "error" \in DOMAIN last.response
                /\ last.response.error = "Verification required"
    /\ last.op = "conduct_agent_verification" =>
          /\ last.passed = (last.questions >= 1)
          /\ last.passed =>
                /\ verifications[last.agent_id].expiry = clock + 30 * DAY
                /\ last.component # <<>> => VerifiedFor(last.agent_id, last.component)
    /\ \A a \in DOMAIN verifications :
          verifications[a].expiry = verifications[a].timestamp + 30 * DAY

\* the counters of a status record add up and none is negative
Balanced(status) ==
    /\ status.start.attempts = status.start.successes + status.start.failures
    /\ status.tests.total_runs = status.tests.total_passed + status.tests.total_failed
    /\ \A n \in { status.start.attempts, status.start.successes, status.start.failures,
                  status.tests.total_runs, status.tests.total_passed,
                  status.tests.total_failed } : n >= 0

\* C23: in every persisted status record reached by record_component_start
\* and record_test_run calls, start.attempts = start.successes +
\* start.failures, tests.total_runs = tests.total_passed +
\* tests.total_failed and the six counters are non-negative; a
\* record_component_start raises attempts by exactly one and leaves
\* total_runs, a record_test_run raises total_runs by exactly one and
\* leaves attempts.
C23_CountersAddUp ==
    [][ /\ \A c \in DOMAIN statusFiles' : Balanced(statusFiles'[c])
        /\ LET c == last'.component
               before == LoadStatus(statusFiles, c, now)
           IN  /\ c \in DOMAIN statusFiles'
               /\ last'.op = "record_component_start" =>
                     /\ statusFiles'[c].start.attempts = before.start.attempts + 1
                     /\ statusFiles'[c].tests.total_runs = before.tests.total_runs
               /\ last'.op = "record_test_run" =>
                     /\ statusFiles'[c].tests.total_runs = before.tests.total_runs + 1
                     /\ statusFiles'[c].start.attempts = before.start.attempts
      ]_vars

\* a record that has counted a successful and a failed start and a passed
\* and a failed test run
C23_Witness ==
    \E c \in DOMAIN statusFiles :
        /\ statusFiles[c].start.successes = 1
        /\ statusFiles[c].start.failures = 1
        /\ statusFiles[c].start.attempts = 2
        /\ statusFiles[c].tests.total_passed = 1
        /\ statusFiles[c].tests.total_failed = 1
        /\ statusFiles[c].tests.total_runs = 2

\* the issues of a type in a status record
IssuesOfType(status, type) ==
    { i \in DOMAIN status.issues : status.issues[i].type = type }

\* C24: in sequential execution from no persisted record, the number of
\* issues of a component's persisted record is start.failures +
\* tests.total_failed, with as many start_failure issues as start.failures
\* and as many test_failure issues as tests.total_failed; and the
\* component has at most as many ticket records as issues.
C24_IssuesMatchFailures ==
    \A c \in DOMAIN statusFiles :
        /\ Len(statusFiles[c].issues)
              = statusFiles[c].start.failures + statusFiles[c].tests.total_failed
        /\ Cardinality(IssuesOfType(statusFiles[c], "start_failure"))
              = statusFiles[c].start.failures
        /\ Cardinality(IssuesOfType(statusFiles[c], "test_failure"))
              = statusFiles[c].tests.total_failed
        /\ Cardinality(TicketsOf(c)) <= Len(statusFiles[c].issues)

\* a record with issues of both types, one of them without a ticket
C24_Witness ==
    \E c \in DOMAIN statusFiles :
        /\ IssuesOfType(statusFiles[c], "start_failure") # {}
        /\ IssuesOfType(statusFiles[c], "test_failure") # {}
        /\ Len(statusFiles[c].issues) = 3
        /\ Cardinality(TicketsOf(c)) = 2

\* C25: record_component_start(c, ...) leaves the tests sub-record of c,
\* the status record of every other component and every existing ticket
\* record as they were; record_test_run(c, ...) leaves the start
\* sub-record of c, the status record of every other component and every
\* existing ticket record as they were.
C25_RecordCallFrame ==
    [][ LET c == last'.component
            before == LoadStatus(statusFiles, c, now)
        IN  /\ DOMAIN statusFiles' = DOMAIN statusFiles \cup {c}
            /\ \A d \in DOMAIN statusFiles \ {c} : statusFiles'[d] = statusFiles[d]
            /\ \A id \in DOMAIN tickets :
                  /\ id \in DOMAIN tickets'
                  /\ tickets'[id] = tickets[id]
            /\ last'.op = "record_component_start" =>
                  statusFiles'[c].tests = before.tests
            /\ last'.op = "record_test_run" =>
                  statusFiles'[c].start = before.start
      ]_vars

\* a failing start of a component whose tests have run, which generated a
\* ticket next to an older ticket of the same component, with the record
\* of another component present
C25_Witness ==
    /\ last.op = "record_component_start"
    /\ last.generated # {}
    /\ statusFiles[last.component].tests.total_runs = 1
    /\ statusFiles[last.component].tests.status = "failing"
    /\ \E d \in DOMAIN statusFiles : d # last.component
    /\ \E id \in TicketsOf(last.component) :
          /\ id \notin last.generated
          /\ tickets[id].status = "open"

\* the record calls made on a component so far, by operation
StartsRecorded(c) == { i \in DOMAIN hist[c] : hist[c][i].op = "record_component_start" }
TestsRecorded(c) == { i \in DOMAIN hist[c] : hist[c][i].op = "record_test_run" }

\* the step just taken was a failing record_component_start on a
\* component on which no test run was ever recorded
UntestedStartFailed ==
    /\ last.op = "record_component_start"
    /\ ~last.success
    /\ TestsRecorded(last.component) = {}

\* C26 as stated: a failing record_component_start on a component on which no test
\* run was ever recorded leaves operational_status unknown, not offline,
\* although start.status is failed, an open start_failure issue is
\* appended and a high-priority ticket is generated; and the persisted
\* operational_status of a component is different from unknown only when
\* at least one start and at least one test run have been recorded on it.
C26_UntestedFailureTicketed ==
    /\ UntestedStartFailed =>
          LET status == statusFiles[last.component]
              issue == status.issues[Len(status.issues)]
          IN  /\ status.operational_status = "unknown"
              /\ status.start.status = "failed"
              /\ issue.type = "start_failure"
              /\ issue.status = "open"
              /\ \E id \in last.generated :
                    /\ tickets[id].issue_id = issue.id
                    /\ tickets[id].priority = "high"
    /\ \A c \in DOMAIN statusFiles :
          statusFiles[c].operational_status # "unknown" =>
              /\ StartsRecorded(c) # {}
              /\ TestsRecorded(c) # {}

\* C26, amended: a failing record_component_start on a component on which
\* no test run was ever recorded leaves operational_status unknown, not
\* offline, although start.status is failed and an open start_failure
\* issue is appended; a high-priority ticket for that issue is generated
\* if start.failures now exceeds start.successes, and no ticket
\* otherwise; and the persisted operational_status of a component is
\* different from unknown only when at least one start and at least one
\* test run have been recorded on it.
C26_UntestedFailureStaysUnknown ==
    /\ UntestedStartFailed =>
          LET status == statusFiles[last.component]
              issue == status.issues[Len(status.issues)]
          IN  /\ status.operational_status = "unknown"
              /\ status.start.status = "failed"
              /\ issue.type = "start_failure"
              /\ issue.status = "open"
              /\ IF status.start.failures > status.start.successes
                 THEN \E id \in last.generated :
                         /\ last.generated = {id}
                         /\ tickets[id].issue_id = issue.id
                         /\ tickets[id].priority = "high"
                 ELSE last.generated = {}
    /\ \A c \in DOMAIN statusFiles :
          statusFiles[c].operational_status # "unknown" =>
              /\ StartsRecorded(c) # {}
              /\ TestsRecorded(c) # {}

\* a component whose start failed twice, never tested: unknown, with two
\* tickets
C26_Witness ==
    /\ UntestedStartFailed
    /\ statusFiles[last.component].start.failures = 2
    /\ statusFiles[last.component].operational_status = "unknown"
    /\ Cardinality(TicketsOf(last.component)) = 2

\* the statuses of a record say whether a start and a test run were ever
\* counted, and degraded is running with failing tests
StatusesSettled(status) ==
    /\ (status.start.status = "unknown") = (status.start.attempts = 0)
    /\ (status.tests.status = "unknown") = (status.tests.total_runs = 0)
    /\ (status.operational_status = "degraded")
          = (status.start.status = "running" /\ status.tests.status = "failing")

\* C27: in sequential execution on readable records, start.status is
\* unknown exactly while start.attempts is 0 and tests.status exactly
\* while tests.total_runs is 0, neither returns to unknown once it has left
\* it, and a persisted operational_status that is different from unknown
\* is never unknown again; and in every record operational_status is
\* degraded exactly when start.status is running and tests.status is
\* failing.
C27_NeverBackToUnknown ==
    [][ /\ \A c \in DOMAIN statusFiles' : StatusesSettled(statusFiles'[c])
        /\ \A c \in DOMAIN statusFiles :
              /\ c \in DOMAIN statusFiles'
              /\ statusFiles[c].start.status # "unknown" =>
                    statusFiles'[c].start.status # "unknown"
              /\ statusFiles[c].tests.status # "unknown" =>
                    statusFiles'[c].tests.status # "unknown"
              /\ statusFiles[c].operational_status # "unknown" =>
                    statusFiles'[c].operational_status # "unknown"
      ]_vars

\* a component that was started and tested, now started again with
\* success: degraded, its tests status still failing
C27_Witness ==
    /\ last.op = "record_component_start"
    /\ last.success
    /\ statusFiles[last.component].start.attempts = 2
    /\ statusFiles[last.component].tests.total_runs = 1
    /\ statusFiles[last.component].tests.status = "failing"
    /\ statusFiles[last.component].operational_status = "degraded"

\* the ticket refers to an issue of the persisted status record of its
\* component
IssuePersisted(ticket) ==
    /\ ticket.component \in Readable(statusFiles)
    /\ \E i \in DOMAIN statusFiles[ticket.component].issues :
          /\ statusFiles[ticket.component].issues[i].id = ticket.issue_id
          /\ statusFiles[ticket.component].issues[i].type = ticket.issue_type
          /\ statusFiles[ticket.component].issues[i].component = ticket.component

\* C28 as stated: every persisted ticket record has its issue (the id, the
\* type and the component of the ticket) in the persisted status record of
\* the component, at the end of each record call and also when the call
\* fails between the write of the ticket and the save of the status.
C28_TicketHasIssue ==
    \A id \in DOMAIN tickets : IssuePersisted(tickets[id])

\* the line generate_work_ticket had appended to the notification log for
\* the ticket stored under id
GenerationLines(id) ==
    { i \in DOMAIN notifications : notifications[i].ticket_id = id }

\* the ticket stored under id holds what its generation assigned: the id,
\* and the component, the issue and the time its notification line and
\* its issue have
AsGenerated(id) ==
    /\ tickets[id].id = id
    /\ \E i \in GenerationLines(id) :
          /\ tickets[id].component = notifications[i].component
          /\ tickets[id].created_at = notifications[i].time
          /\ \E c \in Readable(statusFiles) :
                \E k \in DOMAIN statusFiles[c].issues :
                    /\ statusFiles[c].issues[k].id = tickets[id].issue_id
                    /\ statusFiles[c].issues[k].component = notifications[i].component
                    /\ statusFiles[c].issues[k].timestamp = notifications[i].time

\* C29 as stated: after any sequence of ticket generations and
\* update_work_ticket calls, the id field of every persisted ticket record
\* is the ticket id the record is stored under, and its component,
\* issue_id and created_at are those assigned at its generation.
C29_TicketIdentityKept ==
    \A id \in DOMAIN tickets : AsGenerated(id)

\* C30: under every interleaving of record_component_start and
\* record_test_run calls of several processes on the same component, the
\* load and the save of a call being atomic steps, every persisted record
\* is consistent in itself: operational_status is what the rule gives for
\* its start.status and tests.status, start.attempts = start.successes +
\* start.failures and tests.total_runs = tests.total_passed +
\* tests.total_failed; a lost update changes the number of calls the
\* record counts, which never exceeds the calls that ran to their save.
C30_ConsistentUnderInterleaving ==
    \A c \in DOMAIN statusFiles :
        /\ FollowsTable(statusFiles[c])
        /\ Balanced(statusFiles[c])
        /\ CallsCounted(statusFiles[c]) <= CallsFinished(hist, procs, c)

\* a start and a test run of the same component by two processes that
\* both loaded before either saved: the record counts the test run only,
\* unknown although a start was recorded
C30_Witness ==
    \E c \in DOMAIN statusFiles :
        /\ \A p \in Procs : procs[p] = Idle
        /\ StartsRecorded(c) # {}
        /\ TestsRecorded(c) # {}
        /\ CallsFinished(hist, procs, c) = 2
        /\ statusFiles[c].start.attempts = 0
        /\ statusFiles[c].tests.total_runs = 1
        /\ statusFiles[c].operational_status = "unknown"

=============================================================================
